---- MODULE Spec2Model ----
(***************************************************************************)
(* Model of the news ingestion command (news/management/commands/          *)
(* scrape_news.py) and of the NewsArticle / NewsListPage storage it        *)
(* writes through (news/models.py).                                        *)
(*                                                                         *)
(* Strings are sequences of one-character strings over Alphabet.           *)
(***************************************************************************)
EXTENDS Integers, Sequences, FiniteSets, TLC

VARIABLES
    store,            \* the NewsArticle table: the set of its rows
    news_list_page,   \* TRUE iff a NewsListPage row exists
    pc,               \* position of the running command
    options,          \* the options of the running command
    all_articles,     \* handle: all_articles / _create_test_articles: test_articles
    idx,              \* 1-based position of the for loop over the records
    created_count,    \* handle / _create_test_articles: created_count
    updated_count,    \* handle: updated_count
    skipped_count,    \* handle: skipped_count
    today,            \* timezone.now(), in days
    run,              \* history of the running command (not program state)
    fp,               \* fingerprint harness: inputs and computed digests
    sl,               \* slug harness: slugs of the rows, last title and its slug
    rc,               \* two concurrent runs: their rows and their positions
    ex                \* extractor harness: the document served and the records

vars == <<store, news_list_page, pc, options, all_articles, idx, created_count,
          updated_count, skipped_count, today, run, fp, sl, rc, ex>>

pipeline_vars == <<store, news_list_page, pc, options, all_articles, idx,
                   created_count, updated_count, skipped_count, today, run>>

(***************************************************************************)
(* Bounds of the model.                                                    *)
(***************************************************************************)
MaxArticles == 1     \* largest --max-articles the model draws
MaxDay == 2          \* the clock runs over days 1..MaxDay
MaxStrLen == 2       \* fingerprint harness: longest title, summary, url
MaxTitleLen == 2     \* slug harness: longest enumerated title
MaxSlugRows == 3     \* slug harness: most rows created
MaxEntries == 2      \* extractor harness: most entries in a document

(***************************************************************************)
(* Characters and strings.                                                 *)
(***************************************************************************)
Alphabet == {"a", "b", "A", "!", " ", "-", "1"}

Min(x, y) == IF x <= y THEN x ELSE y

\* All strings over S of length at most n.
StringsUpTo(S, n) == UNION {[1..k -> S] : k \in 0..n}

\* n copies of character c.
Repeat(c, n) == [i \in 1..n |-> c]

\* str.lower() on one character.
LowerChar(c) == IF c = "A" THEN "a" ELSE c

\* str.lower()
Lower(s) == [i \in 1..Len(s) |-> LowerChar(s[i])]

\* \s of the regular expressions
IsSpace(c) == c = " "

\* the character class [a-zA-Z0-9\s-]
IsSlugChar(c) == c \in {"a", "b", "A", "1", "-"} \/ IsSpace(c)

\* re.sub(r'[^a-zA-Z0-9\s-]', '', s)
RemoveSpecial(s) == SelectSeq(s, IsSlugChar)

\* re.sub(r'\s+', '-', s): every maximal run of whitespace becomes one hyphen
RECURSIVE SpacesToHyphen(_)
SpacesToHyphen(s) ==
    IF s = <<>> THEN <<>>
    ELSE IF IsSpace(Head(s))
         THEN IF Len(s) > 1 /\ IsSpace(s[2])
              THEN SpacesToHyphen(Tail(s))
              ELSE <<"-">> \o SpacesToHyphen(Tail(s))
         ELSE <<Head(s)>> \o SpacesToHyphen(Tail(s))

\* str.lstrip('-')
RECURSIVE LStripHyphen(_)
LStripHyphen(s) ==
    IF s # <<>> /\ Head(s) = "-" THEN LStripHyphen(Tail(s)) ELSE s

\* str.rstrip('-')
RECURSIVE RStripHyphen(_)
RStripHyphen(s) ==
    IF s # <<>> /\ s[Len(s)] = "-"
    THEN RStripHyphen(SubSeq(s, 1, Len(s) - 1))
    ELSE s

\* str.strip('-')
StripHyphen(s) == RStripHyphen(LStripHyphen(s))

\* s[:n]
Truncate(s, n) == SubSeq(s, 1, Min(n, Len(s)))

\* str(n) for n >= 0; the model's alphabet has the digit "1" only, so other
\* digits are written as the one-character strings "0", "2", ... "9".
Digit(d) == CASE d = 0 -> "0" [] d = 1 -> "1" [] d = 2 -> "2" [] d = 3 -> "3"
              [] d = 4 -> "4" [] d = 5 -> "5" [] d = 6 -> "6" [] d = 7 -> "7"
              [] d = 8 -> "8" [] d = 9 -> "9"

RECURSIVE Str(_)
Str(n) == IF n < 10 THEN <<Digit(n)>> ELSE Str(n \div 10) \o <<Digit(n % 10)>>

(***************************************************************************)
(* Fingerprint: sha256 of title, summary and source_url concatenated.      *)
(***************************************************************************)
CharCode(c) == CASE c = "a" -> 1 [] c = "b" -> 2 [] c = "A" -> 3 [] c = "!" -> 4
                 [] c = " " -> 5 [] c = "-" -> 6 [] c = "1" -> 7

\* hashlib.sha256(s.encode()).hexdigest(): a collision-free digest, one number
\* per string (the positional code of the string, no character coded 0).
RECURSIVE sha256(_)
sha256(s) ==
    IF s = <<>> THEN 0
    ELSE sha256(SubSeq(s, 1, Len(s) - 1)) * (Cardinality(Alphabet) + 1)
         + CharCode(s[Len(s)])

\* faulty variant: the url hashed alone
content_hash_url_only(title, summary, source_url) == sha256(source_url)

\* _process_article, lines 341-342; NewsArticle.save computes the same
content_hash_of(title, summary, source_url) ==
    sha256(title \o summary \o source_url)

(***************************************************************************)
(* Slugs.                                                                  *)
(***************************************************************************)
SlugMaxLen == 50

\* faulty variant: the title is not put in lower case
base_slug_as_typed(title) ==
    Truncate(StripHyphen(SpacesToHyphen(RemoveSpecial(title))), SlugMaxLen)

\* _create_slug, lines 387-391
base_slug(title) ==
    Truncate(StripHyphen(SpacesToHyphen(RemoveSpecial(Lower(title)))), SlugMaxLen)

\* _create_slug, lines 397-399: the while loop, entered with slug and counter
RECURSIVE slug_loop(_, _, _, _)
slug_loop(base, slug, counter, slugs) ==
    IF slug \in slugs
    THEN slug_loop(base, base \o <<"-">> \o Str(counter), counter + 1, slugs)
    ELSE slug

\* faulty variant: one suffix is tried, and returned whether taken or not
create_slug_once(title, slugs) ==
    IF base_slug(title) \in slugs
    THEN base_slug(title) \o <<"-">> \o Str(1)
    ELSE base_slug(title)

\* _create_slug(title), with slugs the slugs of the NewsArticle rows
_create_slug(title, slugs) == slug_loop(base_slug(title), base_slug(title), 1, slugs)

(***************************************************************************)
(* Records.  A RawArticle is a record with the keys of the dict the        *)
(* extractors build; the canned test records have no publication_date key. *)
(***************************************************************************)
Fingerprint(a) == content_hash_of(a.title, a.summary, a.source_url)

\* What the aggregator page can yield.
HackerNewsStories ==
    { [title |-> <<"a">>, summary |-> <<"b">>, source_url |-> <<"a", "b">>,
       source_name |-> "Hacker News"] }

\* What the forum feed can yield: the first post has the slug of the story, the
\* second has, with another summary and url, the same concatenation of title,
\* summary and url as the story, the third has no url.
RedditPosts ==
    { [title |-> <<"A", "!">>, summary |-> <<"b">>, source_url |-> <<"b">>,
       source_name |-> "Reddit Programming"],
      [title |-> <<"a">>, summary |-> <<"b", "a">>, source_url |-> <<"b">>,
       source_name |-> "Reddit Programming"],
      [title |-> <<"b">>, summary |-> <<"b">>, source_url |-> <<>>,
       source_name |-> "Reddit Programming"] }

\* 'publication_date': timezone.now().date()
Stamp(a, now) ==
    [title |-> a.title, summary |-> a.summary, source_url |-> a.source_url,
     source_name |-> a.source_name, publication_date |-> now]

\* The lists of at most n records an extractor can return from what the source
\* serves; the empty list is also what a failed fetch returns.
Outputs(S, n, now) ==
    UNION {{[i \in 1..k |-> Stamp(f[i], now)] : f \in [1..k -> S]} : k \in 0..n}

\* What a fetch can raise: session.get (no connection, timeout) and
\* raise_for_status (a status that is not 2xx).
FetchErrors == {"ConnectionError", "HTTPError"}

\* faulty variant: the extractor lets the exception of the fetch through
scraper_catches_none(exc) == FALSE

\* scrape_hacker_news, line 80, and scrape_reddit_programming, line 130:
\* except Exception
ScraperCatches(exc) == exc \in FetchErrors

\* What a call of an extractor comes to: the records it returns, whether its
\* fetch failed, and whether it raised.
Extracted(articles) == [failed |-> FALSE, raised |-> FALSE, articles |-> articles]

FetchFailed(exc) ==
    [failed |-> TRUE, raised |-> ~ScraperCatches(exc), articles |-> <<>>]

\* NewsScraper.scrape_hacker_news(max_articles)
scrape_hacker_news(max_articles, now) ==
    {Extracted(l) : l \in Outputs(HackerNewsStories, max_articles, now)}
        \cup {FetchFailed(exc) : exc \in FetchErrors}

\* NewsScraper.scrape_reddit_programming(max_articles)
scrape_reddit_programming(max_articles, now) ==
    {Extracted(l) : l \in Outputs(RedditPosts, max_articles, now)}
        \cup {FetchFailed(exc) : exc \in FetchErrors}

\* _create_test_articles: test_articles (short stand-ins for the three canned
\* records: pairwise different titles, summaries and urls, no publication_date)
test_articles ==
    << [title |-> <<"A", "!">>, summary |-> <<"b">>, source_url |-> <<"b">>,
        source_name |-> "Test Tech News"],
       [title |-> <<"a", "1">>, summary |-> <<"1">>, source_url |-> <<"1">>,
        source_name |-> "Test AI News"],
       [title |-> <<"b", "1">>, summary |-> <<"-">>, source_url |-> <<"-">>,
        source_name |-> "Test Dev News"] >>

(***************************************************************************)
(* The extractors, entry by entry.  The documents are the parsed response: *)
(* for the forum the list data['data']['children'], each child a record    *)
(* with or without the key data, each post_data a record with some of the  *)
(* keys title, url, permalink, selftext.                                   *)
(***************************************************************************)
SummaryMaxLen == 200

Ellipsis == <<".", ".", ".">>

RedditBase == <<"h", "t", "t", "p", "s", ":", "/", "/", "r", "e", "d", "d", "i", "t", ".", "c", "o", "m">>

RedditPath == <<"/", "r", "/">>

RedditHost == <<"r", "e", "d", "d", "i", "t", ".", "c", "o", "m">>

RedditSummaryPrefix == <<"P", "r", "o", "g", "r", "a", "m", "m", "i", "n", "g", " ", "d", "i", "s", "c", "u", "s", "s", "i", "o", "n", ":", " ">>

\* s.startswith(p)
StartsWith(s, p) == Len(s) >= Len(p) /\ SubSeq(s, 1, Len(p)) = p

\* p in s
Contains(s, p) ==
    \E i \in 1..(Len(s) - Len(p) + 1) : SubSeq(s, i, i + Len(p) - 1) = p

\* str.strip(): leading and trailing whitespace removed
RECURSIVE LStripSpace(_)
LStripSpace(s) == IF s # <<>> /\ IsSpace(Head(s)) THEN LStripSpace(Tail(s)) ELSE s

RECURSIVE RStripSpace(_)
RStripSpace(s) ==
    IF s # <<>> /\ IsSpace(s[Len(s)])
    THEN RStripSpace(SubSeq(s, 1, Len(s) - 1))
    ELSE s

StripSpace(s) == RStripSpace(LStripSpace(s))

\* d.get(key, '')
Get(d, key) == IF key \in DOMAIN d THEN d[key] ELSE <<>>

\* s[:200] + "..." if len(s) > 200 else s
Shorten(s) ==
    IF Len(s) > SummaryMaxLen THEN Truncate(s, SummaryMaxLen) \o Ellipsis ELSE s

\* faulty variant: the url of the post is kept whatever it is
reddit_source_url_kept(post_data) ==
    [raised |-> FALSE, source_url |-> Get(post_data, "url")]

\* scrape_reddit_programming, lines 103-105: post_data['permalink'] raises
\* KeyError when the post has no permalink
reddit_source_url(post_data) ==
    LET source_url == Get(post_data, "url")
    IN  IF StartsWith(source_url, RedditPath) \/ Contains(source_url, RedditHost)
        THEN IF "permalink" \in DOMAIN post_data
             THEN [raised |-> FALSE, source_url |-> RedditBase \o post_data.permalink]
             ELSE [raised |-> TRUE, source_url |-> source_url]
        ELSE [raised |-> FALSE, source_url |-> source_url]

\* scrape_reddit_programming, lines 108-114
reddit_summary(title, post_data) ==
    IF Get(post_data, "selftext") # <<>>
    THEN Shorten(Get(post_data, "selftext"))
    ELSE Shorten(RedditSummaryPrefix \o title)

Skipped == [emitted |-> FALSE]

\* scrape_reddit_programming, lines 95-126: the body of the for loop
reddit_entry(post, now) ==
    IF "data" \notin DOMAIN post
    THEN Skipped
    ELSE LET post_data == post.data
             title == StripSpace(Get(post_data, "title"))
             url == reddit_source_url(post_data)
         IN  IF title = <<>> \/ url.raised
             THEN Skipped
             ELSE [emitted |-> TRUE,
                   article |-> [title |-> title,
                                summary |-> reddit_summary(title, post_data),
                                source_url |-> url.source_url,
                                source_name |-> "Reddit Programming",
                                publication_date |-> now]]

\* scrape_reddit_programming, lines 92-128: the records of the entries, in order
RECURSIVE reddit_loop(_, _)
reddit_loop(children, now) ==
    IF children = <<>> THEN <<>>
    ELSE LET e == reddit_entry(Head(children), now)
         IN  (IF e.emitted THEN <<e.article>> ELSE <<>>)
                 \o reddit_loop(Tail(children), now)

\* scrape_reddit_programming, lines 94-128, on the children of the response
reddit_articles_of(children, max_articles, now) ==
    reddit_loop(Truncate(children, max_articles), now)

HackerNewsBase == <<"h", "t", "t", "p", "s", ":", "/", "/", "n", "e", "w", "s", ".", "y", "c", "o", "m", "b", "i", "n", "a", "t", "o", "r", ".", "c", "o", "m", "/">>

ItemPrefix == <<"i", "t", "e", "m", "?">>

HttpPrefix == <<"h", "t", "t", "p">>

HackerNewsSummaryPrefix == <<"L", "a", "t", "e", "s", "t", " ", "s", "t", "o", "r", "y", " ", "f", "r", "o", "m", " ", "H", "a", "c", "k", "e", "r", " ", "N", "e", "w", "s", ":", " ">>

\* scrape_hacker_news, lines 42-76: the body of the for loop.  A story row is
\* a record with or without the key titleline (the span of class titleline),
\* the span a record with or without the key a (its first link), the link a
\* record with the key text, with or without href, and with the key raises
\* when reading it raises.
hn_entry(story_row, now) ==
    IF "titleline" \notin DOMAIN story_row
    THEN Skipped
    ELSE IF "a" \notin DOMAIN story_row.titleline
    THEN Skipped
    ELSE LET title_link == story_row.titleline.a
             title == StripSpace(title_link.text)
             href == Get(title_link, "href")
             link == IF StartsWith(href, ItemPrefix)
                     THEN HackerNewsBase \o href
                     ELSE href
         IN  IF "raises" \in DOMAIN title_link
             THEN Skipped
             ELSE IF ~StartsWith(href, ItemPrefix) /\ ~StartsWith(href, HttpPrefix)
             THEN Skipped
             ELSE [emitted |-> TRUE,
                   article |-> [title |-> title,
                                summary |-> Shorten(HackerNewsSummaryPrefix \o title),
                                source_url |-> link,
                                source_name |-> "Hacker News",
                                publication_date |-> now]]

\* faulty variant: the loop ends at the first entry that gives no record
RECURSIVE hn_loop_break(_, _)
hn_loop_break(story_rows, now) ==
    IF story_rows = <<>> THEN <<>>
    ELSE LET e == hn_entry(Head(story_rows), now)
         IN  IF e.emitted
             THEN <<e.article>> \o hn_loop_break(Tail(story_rows), now)
             ELSE <<>>

\* scrape_hacker_news, lines 36-78: the records of the entries, in order
RECURSIVE hn_loop(_, _)
hn_loop(story_rows, now) ==
    IF story_rows = <<>> THEN <<>>
    ELSE LET e == hn_entry(Head(story_rows), now)
         IN  (IF e.emitted THEN <<e.article>> ELSE <<>>)
                 \o hn_loop(Tail(story_rows), now)

\* scrape_hacker_news, lines 41-78, on the story rows of the response
hacker_news_articles(story_rows, max_articles, now) ==
    hn_loop(Truncate(story_rows, max_articles), now)

(***************************************************************************)
(* Storage.                                                                *)
(***************************************************************************)
Slugs(st) == {r.slug : r \in st}

Hashes(st) == {r.content_hash : r \in st}

\* Model validation on save: summary and source_url are declared without blank=True
Validates(article) == article.summary # <<>> /\ article.source_url # <<>>

\* What the storage can do to one call of _process_article: serve it, fail in
\* add_child, or fail in save_revision().publish().
Faults == {"none", "add_child", "publish"}

\* What the storage can do to _ensure_news_list_page: serve it, fail before the
\* page is looked up, fail in add_child, or fail in save_revision().publish();
\* the last two only when the page has to be created.
EnsureOutcomes(exists) ==
    IF exists THEN {"ok", "no_site"} ELSE {"ok", "no_site", "add_child", "publish"}

\* _ensure_news_list_page: outcome is what the storage does to it
_ensure_news_list_page(exists, outcome) ==
    IF outcome = "no_site"
    THEN [raised |-> TRUE, news_list_page |-> exists]
    ELSE IF exists
         THEN [raised |-> FALSE, news_list_page |-> TRUE]
         ELSE CASE outcome = "add_child" -> [raised |-> TRUE, news_list_page |-> FALSE]
                [] outcome = "publish" -> [raised |-> TRUE, news_list_page |-> TRUE]
                [] OTHER -> [raised |-> FALSE, news_list_page |-> TRUE]

Returns(result, st) == [result |-> result, exc |-> "none", store |-> st]

Raises(exc, st) == [result |-> "raise", exc |-> exc, store |-> st]

\* faulty variant: the update is saved as a new row beside the existing one
update_article_adds_row(existing, article_data, st, now, fault) ==
    IF "publication_date" \notin DOMAIN article_data
    THEN Raises("KeyError", st)
    ELSE IF fault = "publish"
         THEN Raises("DatabaseError", st)
         ELSE Returns("updated",
                      st \cup
                      {[existing EXCEPT
                          !.title = article_data.title,
                          !.summary = article_data.summary,
                          !.publication_date = article_data.publication_date,
                          !.source_name = article_data.source_name,
                          !.updated_at = now]})

\* faulty variant: the update also writes scraped_at
update_article_writes_scraped_at(existing, article_data, st, now, fault) ==
    IF "publication_date" \notin DOMAIN article_data
    THEN Raises("KeyError", st)
    ELSE IF fault = "publish"
         THEN Raises("DatabaseError", st)
         ELSE Returns("updated",
                      (st \ {existing}) \cup
                      {[existing EXCEPT
                          !.title = article_data.title,
                          !.summary = article_data.summary,
                          !.publication_date = article_data.publication_date,
                          !.source_name = article_data.source_name,
                          !.scraped_at = now,
                          !.updated_at = now]})

\* _process_article, lines 351-357: the forced update of the existing row
update_article(existing, article_data, st, now, fault) ==
    IF "publication_date" \notin DOMAIN article_data
    THEN Raises("KeyError", st)
    ELSE IF fault = "publish"
         THEN Raises("DatabaseError", st)
         ELSE Returns("updated",
                      (st \ {existing}) \cup
                      {[existing EXCEPT
                          !.title = article_data.title,
                          !.summary = article_data.summary,
                          !.publication_date = article_data.publication_date,
                          !.source_name = article_data.source_name,
                          !.updated_at = now]})

\* faulty variant: the storage lets a second row of one content_hash in
create_article_unchecked(article_data, content_hash, st, list_page, now, fault) ==
    IF ~list_page
    THEN Raises("CommandError", st)
    ELSE IF "publication_date" \notin DOMAIN article_data
    THEN Raises("KeyError", st)
    ELSE LET article ==
               [title |-> article_data.title,
                summary |-> article_data.summary,
                source_url |-> article_data.source_url,
                source_name |-> article_data.source_name,
                publication_date |-> article_data.publication_date,
                content_hash |-> content_hash,
                slug |-> _create_slug(article_data.title, Slugs(st)),
                scraped_at |-> now,
                updated_at |-> now]
         IN  IF ~Validates(article)
             THEN Raises("ValidationError", st)
             ELSE IF fault = "add_child"
             THEN Raises("DatabaseError", st)
             ELSE IF fault = "publish"
             THEN Raises("DatabaseError", st \cup {article})
             ELSE Returns("created", st \cup {article})

\* _process_article, lines 359-382: the creation of a new row
create_article(article_data, content_hash, st, list_page, now, fault) ==
    IF ~list_page
    THEN Raises("CommandError", st)
    ELSE LET slug == _create_slug(article_data.title, Slugs(st))
         IN  IF "publication_date" \notin DOMAIN article_data
             THEN Raises("KeyError", st)
             ELSE LET article ==
                        [title |-> article_data.title,
                         summary |-> article_data.summary,
                         source_url |-> article_data.source_url,
                         source_name |-> article_data.source_name,
                         publication_date |-> article_data.publication_date,
                         content_hash |-> content_hash,
                         slug |-> slug,
                         scraped_at |-> now,
                         updated_at |-> now]
                  IN  IF ~Validates(article)
                      THEN Raises("ValidationError", st)
                      ELSE IF content_hash \in Hashes(st)
                      THEN Raises("IntegrityError", st)
                      ELSE IF fault = "add_child"
                      THEN Raises("DatabaseError", st)
                      ELSE IF fault = "publish"
                      THEN Raises("DatabaseError", st \cup {article})
                      ELSE Returns("created", st \cup {article})

\* faulty variant: an existing row is updated whether or not force_update is set
process_article_always_updates(article_data, force_update, st, list_page, now, fault) ==
    LET content_hash == Fingerprint(article_data)
        found == {r \in st : r.content_hash = content_hash}
    IN  IF found # {}
        THEN update_article(CHOOSE r \in found : TRUE, article_data, st, now, fault)
        ELSE create_article(article_data, content_hash, st, list_page, now, fault)

\* _process_article(article_data, force_update) against the rows st
_process_article(article_data, force_update, st, list_page, now, fault) ==
    LET content_hash == Fingerprint(article_data)
        found == {r \in st : r.content_hash = content_hash}
    IN  IF Cardinality(found) > 1
        THEN Raises("MultipleObjectsReturned", st)
        ELSE IF found # {}
        THEN IF ~force_update
             THEN Returns("skipped", st)
             ELSE update_article(CHOOSE r \in found : TRUE, article_data, st, now, fault)
        ELSE create_article(article_data, content_hash, st, list_page, now, fault)

(***************************************************************************)
(* The command.  pc is "idle" before the first run, "done" after a run     *)
(* that returned and "raised" after a run that ended in a CommandError.    *)
(***************************************************************************)
Sources == {"hackernews", "reddit", "all"}

\* History of a run: whether the rows it started from held none (fresh) or all
\* (known) of the fingerprints of its records, how many rows there were, which
\* extractors ran and which of them had their fetch fail, the calls of
\* _process_article it made, the exceptions its loop caught, what the last
\* call returned, and the call that ended the run with an exception.
RunIdle == [fresh |-> FALSE, known |-> FALSE, rows0 |-> 0, scraped |-> {},
            fetch_failed |-> {}, invoked |-> 0, failed |-> 0, last |-> "none",
            raised_in |-> "none"]

RunFrom(articles, st, scraped, fetch_failed) ==
    [RunIdle EXCEPT
       !.fetch_failed = fetch_failed,
       !.fresh = \A i \in 1..Len(articles) : Fingerprint(articles[i]) \notin Hashes(st),
       !.known = \A i \in 1..Len(articles) : Fingerprint(articles[i]) \in Hashes(st),
       !.rows0 = Cardinality(st),
       !.scraped = scraped]

\* faulty variant: only a CommandError is caught
catches_command_error_only(exc) == exc = "CommandError"

\* handle, line 238 and _create_test_articles, line 300: except Exception
HandleCatches(exc) ==
    exc \in {"KeyError", "ValidationError", "IntegrityError", "DatabaseError",
             "CommandError", "MultipleObjectsReturned"}

\* faulty variant: the dry-run flag is not looked at
reconciles_in_dry_run(dry_run) == TRUE

\* handle, line 218, and _create_test_articles, line 282: a dry run reports
\* the records and does not reconcile them
Reconciles(dry_run) == ~dry_run

\* faulty variant: a caught exception ends the loop
after_failure_stop(i, n) == n + 1

\* handle, lines 238-242: the except clause falls through to the next record
after_failure(i, n) == i + 1

\* faulty variant: a skipped record is counted as updated
tally_skipped_as_updated(result, counts) ==
    CASE result = "created" -> [counts EXCEPT !.created = @ + 1]
      [] result = "raise" -> counts
      [] OTHER -> [counts EXCEPT !.updated = @ + 1]

\* handle, lines 224-242: the tally of one record
tally(result, counts) ==
    CASE result = "created" -> [counts EXCEPT !.created = @ + 1]
      [] result = "updated" -> [counts EXCEPT !.updated = @ + 1]
      [] result = "raise" -> counts
      [] OTHER -> [counts EXCEPT !.skipped = @ + 1]

Counts == [created |-> created_count, updated |-> updated_count,
           skipped |-> skipped_count]

\* handle, lines 186-188 and _create_test_articles, lines 282-287: the list
\* page is ensured unless the run is a dry run.  The set of what the step can
\* come to, over what the storage can do to it.
Ensured(dry_run, list_page) ==
    IF Reconciles(dry_run)
    THEN {_ensure_news_list_page(list_page, outcome) :
              outcome \in EnsureOutcomes(list_page)}
    ELSE {[raised |-> FALSE, news_list_page |-> list_page]}

\* handle, lines 190-204: the selected extractors run, in source order
Extract(source, hn_articles, reddit_articles) ==
    (IF source \in {"hackernews", "all"} THEN hn_articles ELSE <<>>)
        \o (IF source \in {"reddit", "all"} THEN reddit_articles ELSE <<>>)

Scraped(source) == IF source = "all" THEN {"hackernews", "reddit"} ELSE {source}

\* The extractors whose fetch failed.
FailedFetches(hn, reddit) ==
    (IF hn.failed THEN {"hackernews"} ELSE {})
        \cup (IF reddit.failed THEN {"reddit"} ELSE {})

\* The run ends in the CommandError of _ensure_news_list_page.
RaiseFromEnsure ==
    /\ pc' = "raised"
    /\ all_articles' = <<>>
    /\ run' = [RunIdle EXCEPT !.raised_in = "_ensure_news_list_page"]

\* handle, lines 167-215, with test unset: from the options to the for loop
Handle ==
    /\ pc \in {"idle", "done", "raised"}
    /\ \E dry_run \in BOOLEAN, force_update \in BOOLEAN,
          now \in {today, today + 1} :
       \E ensured \in Ensured(dry_run, news_list_page) :
          /\ now <= MaxDay
          /\ today' = now
          /\ options' = [dry_run |-> dry_run, force_update |-> force_update,
                         test |-> FALSE]
          /\ news_list_page' = ensured.news_list_page
          /\ IF ensured.raised
             THEN RaiseFromEnsure
             ELSE \E max_articles \in 1..MaxArticles, source \in Sources :
                  \E hn \in
                         (IF source \in {"hackernews", "all"}
                          THEN scrape_hacker_news(max_articles, now)
                          ELSE {Extracted(<<>>)}),
                     reddit \in
                         (IF source \in {"reddit", "all"}
                          THEN scrape_reddit_programming(max_articles, now)
                          ELSE {Extracted(<<>>)}) :
                     LET found == Extract(source, hn.articles, reddit.articles)
                     IN  IF hn.raised \/ reddit.raised
                         THEN /\ pc' = "raised"
                              /\ all_articles' = <<>>
                              /\ run' = [RunIdle EXCEPT !.raised_in = "NewsScraper"]
                         ELSE /\ all_articles' = found
                              /\ pc' = IF found = <<>> THEN "done" ELSE "loop"
                              /\ run' = IF found = <<>>
                                        THEN [RunIdle EXCEPT
                                                !.scraped = Scraped(source),
                                                !.fetch_failed =
                                                    FailedFetches(hn, reddit)]
                                        ELSE RunFrom(found, store, Scraped(source),
                                                     FailedFetches(hn, reddit))
    /\ idx' = 1
    /\ created_count' = 0
    /\ updated_count' = 0
    /\ skipped_count' = 0
    /\ UNCHANGED <<store, fp, sl, rc, ex>>

\* handle, lines 182-184, and _create_test_articles, lines 259-288: from the
\* options to the for loop over the canned records
HandleTest ==
    /\ pc \in {"idle", "done", "raised"}
    /\ \E dry_run \in BOOLEAN, force_update \in BOOLEAN,
          now \in {today, today + 1} :
       \E ensured \in Ensured(dry_run, news_list_page) :
          /\ now <= MaxDay
          /\ today' = now
          /\ options' = [dry_run |-> dry_run, force_update |-> force_update,
                         test |-> TRUE]
          /\ news_list_page' = ensured.news_list_page
          /\ IF ensured.raised
             THEN RaiseFromEnsure
             ELSE IF ~Reconciles(dry_run)
             THEN /\ pc' = "done"
                  /\ all_articles' = <<>>
                  /\ run' = RunIdle
             ELSE /\ pc' = "test_loop"
                  /\ all_articles' = test_articles
                  /\ run' = RunFrom(test_articles, store, {}, {})
    /\ idx' = 1
    /\ created_count' = 0
    /\ updated_count' = 0
    /\ skipped_count' = 0
    /\ UNCHANGED <<store, fp, sl, rc, ex>>

\* handle, lines 217-243: one pass of the for loop
ProcessNext ==
    /\ pc = "loop"
    /\ idx <= Len(all_articles)
    /\ IF ~Reconciles(options.dry_run)
       THEN /\ idx' = idx + 1
            /\ UNCHANGED <<store, pc, created_count, updated_count,
                           skipped_count, run>>
       ELSE \E fault \in Faults :
               LET r == _process_article(all_articles[idx], options.force_update,
                                         store, news_list_page, today, fault)
                   c == tally(r.result, Counts)
               IN  /\ store' = r.store
                   /\ IF r.result = "raise" /\ ~HandleCatches(r.exc)
                      THEN /\ pc' = "raised"
                           /\ run' = [RunIdle EXCEPT
                                        !.raised_in = "_process_article"]
                           /\ UNCHANGED <<idx, created_count, updated_count,
                                          skipped_count>>
                      ELSE /\ pc' = pc
                           /\ run' = [run EXCEPT
                                        !.invoked = @ + 1,
                                        !.last = r.result,
                                        !.failed = IF r.result = "raise"
                                                   THEN @ + 1 ELSE @]
                           /\ idx' = IF r.result = "raise"
                                     THEN after_failure(idx, Len(all_articles))
                                     ELSE idx + 1
                           /\ created_count' = c.created
                           /\ updated_count' = c.updated
                           /\ skipped_count' = c.skipped
    /\ UNCHANGED <<news_list_page, options, all_articles, today, fp, sl, rc, ex>>

\* handle, lines 244-257: the closing message, and the return
Summary ==
    /\ pc = "loop"
    /\ idx > Len(all_articles)
    /\ pc' = "done"
    /\ run' = RunIdle
    /\ all_articles' = <<>>
    /\ idx' = 1
    /\ created_count' = 0
    /\ updated_count' = 0
    /\ skipped_count' = 0
    /\ UNCHANGED <<store, news_list_page, options, today, fp, sl, rc, ex>>

\* _create_test_articles, lines 290-303: one pass of the for loop
TestProcessNext ==
    /\ pc = "test_loop"
    /\ idx <= Len(all_articles)
    /\ \E fault \in Faults :
          LET r == _process_article(all_articles[idx], FALSE, store,
                                    news_list_page, today, fault)
          IN  /\ store' = r.store
              /\ IF r.result = "raise" /\ ~HandleCatches(r.exc)
                 THEN /\ pc' = "raised"
                      /\ run' = [RunIdle EXCEPT !.raised_in = "_process_article"]
                      /\ UNCHANGED <<idx, created_count>>
                 ELSE /\ pc' = pc
                      /\ run' = [run EXCEPT
                                   !.invoked = @ + 1,
                                   !.last = r.result,
                                   !.failed = IF r.result = "raise"
                                              THEN @ + 1 ELSE @]
                      /\ idx' = IF r.result = "raise"
                                THEN after_failure(idx, Len(all_articles))
                                ELSE idx + 1
                      /\ created_count' = IF r.result = "created"
                                          THEN created_count + 1
                                          ELSE created_count
    /\ UNCHANGED <<news_list_page, options, all_articles, updated_count,
                   skipped_count, today, fp, sl, rc, ex>>

\* _create_test_articles, lines 305-307: the closing message, and the return
TestSummary ==
    /\ pc = "test_loop"
    /\ idx > Len(all_articles)
    /\ pc' = "done"
    /\ run' = RunIdle
    /\ all_articles' = <<>>
    /\ idx' = 1
    /\ created_count' = 0
    /\ UNCHANGED <<store, news_list_page, options, updated_count, skipped_count,
                   today, fp, sl, rc, ex>>

(***************************************************************************)
(* Fingerprint harness: the digest of a drawn (title, summary, source_url) *)
(* and of the same triple with title and summary swapped.                  *)
(***************************************************************************)
FpStrings == StringsUpTo({"a", "b"}, MaxStrLen)

FpIdle == [title |-> <<>>, summary |-> <<>>, source_url |-> <<>>,
           hashed |-> FALSE, content_hash |-> 0, swapped_hash |-> 0]

FpInit ==
    \E t \in FpStrings, s \in FpStrings, u \in FpStrings :
        fp = [FpIdle EXCEPT !.title = t, !.summary = s, !.source_url = u]

FpHash ==
    /\ ~fp.hashed
    /\ fp' = [fp EXCEPT
                !.hashed = TRUE,
                !.content_hash = content_hash_of(fp.title, fp.summary, fp.source_url),
                !.swapped_hash = content_hash_of(fp.summary, fp.title, fp.source_url)]

(***************************************************************************)
(* Slug harness: rows are created one after the other, each with the slug  *)
(* _create_slug returns for its title against the rows created so far.     *)
(***************************************************************************)
SlugTitles ==
    StringsUpTo({"a", "A", " ", "1"}, MaxTitleLen)
        \cup {<<"a", "!">>, <<"!">>, <<"-", "a", "-">>, <<"a", "-", "1">>,
              <<"a", " ", " ", "1">>, <<"a", " ", "-", "1">>,
              Repeat("a", SlugMaxLen + 1),
              Repeat("a", SlugMaxLen) \o <<"1">>,
              Repeat("a", SlugMaxLen - 1) \o <<" ", "a">>}

SlIdle == [slugs |-> {}, before |-> {}, count |-> 0, title |-> <<>>, slug |-> <<>>]

\* One creation: _process_article, lines 366-379, as far as the slug goes.
SlugCreate ==
    /\ sl.count < MaxSlugRows
    /\ \E title \in SlugTitles :
          LET slug == _create_slug(title, sl.slugs)
          IN  sl' = [slugs |-> sl.slugs \cup {slug}, before |-> sl.slugs,
                     count |-> sl.count + 1, title |-> title, slug |-> slug]

(***************************************************************************)
(* Two concurrent runs.  Each worker is the for loop of handle over its    *)
(* own records, with force_update as its run was given it; the list page   *)
(* exists (both runs ensured it).  A call of _process_article is two       *)
(* steps: the lookup by content_hash (line 346), and, when it found no     *)
(* row, the creation (lines 361-380), so that both workers can see no row  *)
(* for one fingerprint before either creates it.                           *)
(***************************************************************************)
Workers == {1, 2}

RaceRecords == HackerNewsStories \cup RedditPosts

RcWorker(articles, force_update) ==
    [articles |-> articles, force_update |-> force_update, idx |-> 1,
     pc |-> "get", last |-> "none", exc |-> "none"]

RcIdle == [store |-> {}, w |-> [p \in Workers |-> RcWorker(<<>>, FALSE)]]

RcInit ==
    \E a1 \in Outputs(RaceRecords, MaxArticles, 1),
       a2 \in Outputs(RaceRecords, MaxArticles, 1),
       f1 \in BOOLEAN, f2 \in BOOLEAN :
        rc = [store |-> {},
              w |-> [p \in Workers |->
                        IF p = 1 THEN RcWorker(a1, f1) ELSE RcWorker(a2, f2)]]

\* The worker goes on to its next record with the outcome r of this one.
RcOutcome(p, r) ==
    rc' = [store |-> r.store,
           w |-> [rc.w EXCEPT ![p] = [@ EXCEPT !.idx = @ + 1,
                                                !.pc = "get",
                                                !.last = r.result,
                                                !.exc = r.exc]]]

\* _process_article, lines 345-357: the lookup, and what follows a found row
RaceGet(p) ==
    LET me == rc.w[p]
    IN  /\ me.pc = "get"
        /\ me.idx <= Len(me.articles)
        /\ IF Fingerprint(me.articles[me.idx]) \notin Hashes(rc.store)
           THEN rc' = [rc EXCEPT !.w[p].pc = "create"]
           ELSE \E fault \in Faults :
                   RcOutcome(p, _process_article(me.articles[me.idx],
                                                 me.force_update, rc.store,
                                                 TRUE, today, fault))

\* _process_article, lines 359-382: the creation, after DoesNotExist
RaceCreate(p) ==
    LET me == rc.w[p]
    IN  /\ me.pc = "create"
        /\ \E fault \in Faults :
              RcOutcome(p, create_article(me.articles[me.idx],
                                          Fingerprint(me.articles[me.idx]),
                                          rc.store, TRUE, today, fault))

(***************************************************************************)
(* Extractor harness: a document is drawn, and the extractor of its source *)
(* is run on it with a drawn max_articles.                                 *)
(***************************************************************************)
\* The posts a forum document is made of: an external url, an internal path,
\* a url on the forum's host, an empty url, no url, a blank title, an internal
\* path and no permalink, a child without data, a long selftext.
RedditChildren ==
    { [data |-> [title |-> <<"a">>, url |-> <<"h", "t", "t", "p", ":", "/", "/", "x">>,
                 permalink |-> <<"/", "r", "/", "p", "/", "1">>, selftext |-> <<>>]],
      [data |-> [title |-> <<"b">>, url |-> <<"/", "r", "/", "p", "/", "2">>,
                 permalink |-> <<"/", "r", "/", "p", "/", "2", "/", "b">>, selftext |-> <<"b">>]],
      [data |-> [title |-> <<" ", "A", " ">>, url |-> <<"h", "t", "t", "p", "s", ":", "/", "/", "o", "l", "d", ".", "r", "e", "d", "d", "i", "t", ".", "c", "o", "m", "/", "r", "/", "p", "/", "3">>,
                 permalink |-> <<"/", "r", "/", "p", "/", "3">>, selftext |-> <<>>]],
      [data |-> [title |-> <<"a">>, url |-> <<>>,
                 permalink |-> <<"/", "r", "/", "p", "/", "4">>, selftext |-> <<>>]],
      [data |-> [title |-> <<"b">>, permalink |-> <<"/", "r", "/", "p", "/", "5">>]],
      [data |-> [title |-> <<" ", " ">>, url |-> <<"h", "t", "t", "p", ":", "/", "/", "x">>,
                 permalink |-> <<"/", "r", "/", "p", "/", "6">>, selftext |-> <<>>]],
      [data |-> [title |-> <<"a">>, url |-> <<"/", "r", "/", "p", "/", "7">>]],
      [kind |-> "more"],
      [data |-> [title |-> <<"b">>, url |-> <<"h", "t", "t", "p", ":", "/", "/", "x">>,
                 permalink |-> <<"/", "r", "/", "p", "/", "9">>,
                 selftext |-> Repeat("a", SummaryMaxLen + 1)]] }

\* The story rows an aggregator document is made of: an absolute link, an
\* item reference, no title cell, a title cell without link, a link that is
\* neither, a link without href, a link that raises, a long title, no text.
HackerNewsRows ==
    { [titleline |-> [a |-> [text |-> <<"a">>, href |-> <<"h", "t", "t", "p", ":", "/", "/", "x">>]]],
      [titleline |-> [a |-> [text |-> <<" ", "b", " ">>, href |-> <<"i", "t", "e", "m", "?", "i", "d", "=", "2">>]]],
      [id |-> <<"3">>],
      [titleline |-> [text |-> <<"a">>]],
      [titleline |-> [a |-> [text |-> <<"a">>, href |-> <<"f", "t", "p", ":", "/", "/", "x">>]]],
      [titleline |-> [a |-> [text |-> <<"b">>]]],
      [titleline |-> [a |-> [text |-> <<"b">>, href |-> <<"h", "t", "t", "p", ":", "/", "/", "x">>,
                             raises |-> TRUE]]],
      [titleline |-> [a |-> [text |-> Repeat("a", SummaryMaxLen),
                             href |-> <<"h", "t", "t", "p", ":", "/", "/", "y">>]]],
      [titleline |-> [a |-> [text |-> <<>>, href |-> <<"h", "t", "t", "p", ":", "/", "/", "z">>]]] }

\* All documents of at most n entries out of S.
Documents(S, n) == UNION {[1..k -> S] : k \in 0..n}

ExIdle == [source |-> "none", page |-> <<>>, max_articles |-> 1,
           done |-> FALSE, articles |-> <<>>]

ExInit ==
    \E source \in {"hackernews", "reddit"}, max_articles \in 1..MaxEntries :
       \E page \in Documents(IF source = "reddit" THEN RedditChildren
                              ELSE HackerNewsRows, MaxEntries) :
          ex = [ExIdle EXCEPT !.source = source, !.page = page,
                              !.max_articles = max_articles]

\* scrape_hacker_news(max_articles) on the document drawn
ExScrapeHackerNews ==
    /\ ex.source = "hackernews"
    /\ ~ex.done
    /\ ex' = [ex EXCEPT
                !.done = TRUE,
                !.articles = hacker_news_articles(ex.page, ex.max_articles, today)]

\* scrape_reddit_programming(max_articles) on the document drawn
ExScrapeReddit ==
    /\ ex.source = "reddit"
    /\ ~ex.done
    /\ ex' = [ex EXCEPT
                !.done = TRUE,
                !.articles = reddit_articles_of(ex.page, ex.max_articles, today)]

(***************************************************************************)
(* Specifications.                                                         *)
(***************************************************************************)
PipelineInit ==
    /\ store = {}
    /\ news_list_page = FALSE
    /\ pc = "idle"
    /\ options = [dry_run |-> FALSE, force_update |-> FALSE, test |-> FALSE]
    /\ all_articles = <<>>
    /\ idx = 1
    /\ created_count = 0
    /\ updated_count = 0
    /\ skipped_count = 0
    /\ today = 1
    /\ run = RunIdle

Init == PipelineInit /\ fp = FpIdle /\ sl = SlIdle /\ rc = RcIdle /\ ex = ExIdle

Next ==
    \/ Handle
    \/ HandleTest
    \/ ProcessNext
    \/ Summary
    \/ TestProcessNext
    \/ TestSummary

\* The command, run any number of times, one run after the other.
Spec == Init /\ [][Next]_vars

\* The list page is deleted from outside the command (in the admin of the
\* site) while a run is in its loop, after the run has ensured it: the page
\* goes with the article pages under it.
ListPageRemoved ==
    /\ pc \in {"loop", "test_loop"}
    /\ idx <= Len(all_articles)
    /\ Reconciles(options.dry_run)
    /\ news_list_page
    /\ news_list_page' = FALSE
    /\ store' = {}
    /\ UNCHANGED <<pc, options, all_articles, idx, created_count, updated_count,
                   skipped_count, today, run, fp, sl, rc, ex>>

UnlistedNext == Next \/ ListPageRemoved

\* The command, run any number of times, on a site whose list page can go
\* while it runs.
UnlistedSpec == Init /\ [][UnlistedNext]_vars

FingerprintInit == PipelineInit /\ FpInit /\ sl = SlIdle /\ rc = RcIdle /\ ex = ExIdle

FingerprintNext == FpHash /\ UNCHANGED <<pipeline_vars, sl, rc, ex>>

\* The fingerprint of every triple of strings of at most MaxStrLen characters.
FingerprintSpec == FingerprintInit /\ [][FingerprintNext]_vars

SlugNext == SlugCreate /\ UNCHANGED <<pipeline_vars, fp, rc, ex>>

\* Up to MaxSlugRows creations, each of any title of SlugTitles.
SlugSpec == Init /\ [][SlugNext]_vars

RaceInit == PipelineInit /\ fp = FpIdle /\ sl = SlIdle /\ ex = ExIdle /\ RcInit

RaceNext ==
    /\ \E p \in Workers : RaceGet(p) \/ RaceCreate(p)
    /\ UNCHANGED <<pipeline_vars, fp, sl, ex>>

\* Two runs over the same rows, their steps interleaved in any order.
RaceSpec == RaceInit /\ [][RaceNext]_vars

ExtractInit == PipelineInit /\ fp = FpIdle /\ sl = SlIdle /\ rc = RcIdle /\ ExInit

ExtractNext ==
    /\ ExScrapeHackerNews \/ ExScrapeReddit
    /\ UNCHANGED <<pipeline_vars, fp, sl, rc>>

\* Every document of at most MaxEntries entries, extracted once.
ExtractSpec == ExtractInit /\ [][ExtractNext]_vars

(***************************************************************************)
(* Properties.                                                             *)
(***************************************************************************)
N == Len(all_articles)

\* The for loop of handle has passed every record of a run that reconciles:
\* the counters are the ones the closing message prints.
LoopDone == pc = "loop" /\ idx > N /\ Reconciles(options.dry_run)

\* The for loop of _create_test_articles has passed every canned record.
TestLoopDone == pc = "test_loop" /\ idx > N

DistinctFingerprints ==
    \A i \in 1..N : \A j \in 1..N :
        i # j => Fingerprint(all_articles[i]) # Fingerprint(all_articles[j])

AllStored == \A i \in 1..N : Fingerprint(all_articles[i]) \in Hashes(store)

C2_SkipLeavesStore ==
    [][/\ (/\ pc = "loop"
           /\ idx <= N
           /\ Reconciles(options.dry_run)
           /\ ~options.force_update
           /\ Fingerprint(all_articles[idx]) \in Hashes(store)
           /\ idx' # idx)
          => /\ store' = store
             /\ skipped_count' = skipped_count + 1
             /\ created_count' = created_count
             /\ updated_count' = updated_count
             /\ run'.failed = run.failed
       /\ (pc \in {"loop", "test_loop"} /\ run.known /\ ~options.force_update)
          => store' = store]_vars

C2_Witness ==
    /\ pc = "loop"
    /\ Reconciles(options.dry_run)
    /\ ~options.force_update
    /\ run.known
    /\ skipped_count = 1
    /\ store # {}

C4_DryRunWritesNothing ==
    [][options'.dry_run =>
          /\ store' = store
          /\ news_list_page' = news_list_page
          /\ run'.invoked = 0]_vars

C4_Witness ==
    /\ pc = "loop"
    /\ options.dry_run
    /\ options.force_update
    /\ N = 2
    /\ idx > N
    /\ ~news_list_page
    /\ run.fresh

\* C5 as claimed: swapping title and summary changes the fingerprint.
C5_AsClaimed == fp.hashed => fp.content_hash # fp.swapped_hash

\* C5, amended: swapping title and summary changes the fingerprint exactly when
\* title followed by summary differs from summary followed by title (it does
\* not when they are equal, or are both repetitions of one string).
C5_SwapChangesHash ==
    fp.hashed =>
        ((fp.content_hash # fp.swapped_hash)
            <=> (fp.title \o fp.summary # fp.summary \o fp.title))

C5_Witness ==
    /\ fp.hashed
    /\ fp.title # fp.summary
    /\ fp.title # <<>>
    /\ fp.summary # <<>>
    /\ fp.content_hash # fp.swapped_hash

\* C6: in a run that reconciles, every record before the loop position has
\* been passed to _process_article, whether or not it raised, and after a
\* failure the run has its next step to take: the next record, or the closing
\* message.
C6_LoopSurvivesFailure ==
    (pc = "loop" /\ Reconciles(options.dry_run)) =>
        /\ idx <= N + 1
        /\ run.invoked = idx - 1
        /\ created_count + updated_count + skipped_count + run.failed = run.invoked
        /\ run.failed > 0 =>
              /\ idx <= N => ENABLED ProcessNext
              /\ idx > N => ENABLED Summary

\* The first of two records failed and the second was created.
C6_Witness ==
    /\ LoopDone
    /\ N = 2
    /\ run.fresh
    /\ DistinctFingerprints
    /\ run.failed = 1
    /\ run.invoked = 2
    /\ created_count = 1
    /\ Fingerprint(all_articles[1]) \notin Hashes(store)
    /\ Fingerprint(all_articles[2]) \in Hashes(store)

\* C7 as claimed: the counters of the closing message account for every
\* record.  handle keeps no failed counter: the message prints created, updated
\* and skipped.
C7_AsClaimed ==
    LoopDone => created_count + updated_count + skipped_count = N

\* C8: a step that ends a run in a raised CommandError is the ensure step of
\* the start of the run: no extractor has run, _process_article was not
\* called, and no row was written.
C8_OnlyEnsureRaises ==
    [][pc' = "raised" =>
          /\ pc \in {"idle", "done", "raised"}
          /\ run'.raised_in = "_ensure_news_list_page"
          /\ run'.scraped = {}
          /\ run'.invoked = 0
          /\ store' = store]_vars

C8_Witness ==
    /\ pc = "raised"
    /\ run.raised_in = "_ensure_news_list_page"
    /\ store # {}

\* C9 as claimed: a test run that reconciles, over rows that hold none of the
\* canned fingerprints, passes the 3 canned records to _process_article and
\* creates all 3.
C9_AsClaimed ==
    (TestLoopDone /\ run.fresh) =>
        /\ N = 3
        /\ run.scraped = {}
        /\ run.invoked = 3
        /\ created_count = 3
        /\ AllStored

\* C10: _create_slug returns the base slug of the title if no row has it, and
\* otherwise the base slug with the suffix -k, for the least k >= 1 such that
\* no row has that slug; so the slugs of the rows created are pairwise
\* different.
C10_SlugUnique ==
    sl.count > 0 =>
        LET base == base_slug(sl.title)
            Suffixed(k) == base \o <<"-">> \o Str(k)
        IN  /\ Len(base) <= SlugMaxLen
            /\ IF base \notin sl.before
               THEN sl.slug = base
               ELSE \E k \in 1..Cardinality(sl.before) :
                       /\ sl.slug = Suffixed(k)
                       /\ Suffixed(k) \notin sl.before
                       /\ \A j \in 1..(k - 1) : Suffixed(j) \in sl.before
            /\ Cardinality(sl.slugs) = sl.count

\* The third row of one long title: the cut base and its -1 are taken.
C10_Witness ==
    /\ sl.count = 3
    /\ Len(sl.title) > SlugMaxLen
    /\ sl.slug = base_slug(sl.title) \o <<"-", "2">>
    /\ sl.slugs = {base_slug(sl.title),
                   base_slug(sl.title) \o <<"-", "1">>,
                   base_slug(sl.title) \o <<"-", "2">>}

\* C11: however the steps of two concurrent runs interleave, no two rows have
\* the same content_hash: the creation of a row whose content_hash a row
\* already has is rejected by the storage.
C11_UniqueUnderRace ==
    \A r1 \in rc.store : \A r2 \in rc.store :
        r1.content_hash = r2.content_hash => r1 = r2

\* Both workers saw no row for one fingerprint; one created the row, and the
\* creation of the other was rejected.
C11_Witness ==
    /\ rc.w[1].last = "created"
    /\ rc.w[2].exc = "IntegrityError"
    /\ Fingerprint(rc.w[1].articles[1]) = Fingerprint(rc.w[2].articles[1])
    /\ Cardinality(rc.store) = 1

\* The entries the extractor looked at: the first max_articles of the document.
Taken == Truncate(ex.page, ex.max_articles)

\* The positions, in document order, of the forum posts that gave a record.
RECURSIVE RedditEmitted(_)
RedditEmitted(n) ==
    IF n = 0 THEN <<>>
    ELSE RedditEmitted(n - 1)
             \o (IF reddit_entry(Taken[n], today).emitted THEN <<n>> ELSE <<>>)

\* The url field of the post points into the forum.
InternalUrl(post) ==
    LET url == Get(post.data, "url")
    IN  StartsWith(url, RedditPath) \/ Contains(url, RedditHost)

\* C12: the record of a post whose url starts with /r/ or is on the forum's
\* host has as source_url the absolute permalink, https://reddit.com followed
\* by the permalink of the post, and never the url of the post.
C12_InternalUrlGivesPermalink ==
    (ex.done /\ ex.source = "reddit") =>
        LET from == RedditEmitted(Len(Taken))
        IN  /\ Len(ex.articles) = Len(from)
            /\ \A k \in 1..Len(from) :
                  InternalUrl(Taken[from[k]]) =>
                      /\ ex.articles[k].source_url
                            = RedditBase \o Taken[from[k]].data.permalink
                      /\ ex.articles[k].source_url # Taken[from[k]].data.url
                      /\ ~StartsWith(ex.articles[k].source_url, RedditPath)

\* Two records, of a post with an internal path and of one on the forum's host.
C12_Witness ==
    /\ ex.done
    /\ ex.source = "reddit"
    /\ Len(ex.articles) = 2
    /\ \A i \in 1..2 : "data" \in DOMAIN Taken[i] /\ InternalUrl(Taken[i])
    /\ StartsWith(Get(Taken[1].data, "url"), RedditPath)
    /\ ~StartsWith(Get(Taken[2].data, "url"), RedditPath)
    /\ ex.articles[1].source_url = RedditBase \o Taken[1].data.permalink

\* The story row has a title cell with a link whose href is an item reference
\* or an absolute url, and reading it does not raise.
WellFormed(story_row) ==
    /\ "titleline" \in DOMAIN story_row
    /\ "a" \in DOMAIN story_row.titleline
    /\ "raises" \notin DOMAIN story_row.titleline.a
    /\ "href" \in DOMAIN story_row.titleline.a
    /\ \/ StartsWith(story_row.titleline.a.href, ItemPrefix)
       \/ StartsWith(story_row.titleline.a.href, HttpPrefix)

\* The positions, in document order, of the well-formed story rows looked at.
RECURSIVE WellFormedAt(_)
WellFormedAt(n) ==
    IF n = 0 THEN <<>>
    ELSE WellFormedAt(n - 1) \o (IF WellFormed(Taken[n]) THEN <<n>> ELSE <<>>)

\* C13: the aggregator extractor returns one record for each well-formed story
\* row among the first max_articles, in document order, and none for the
\* others: a row without title cell or link, with a link that is neither an
\* item reference nor absolute, or that raises, is passed over alone.
C13_MalformedSkippedAlone ==
    (ex.done /\ ex.source = "hackernews") =>
        LET from == WellFormedAt(Len(Taken))
        IN  /\ Len(ex.articles) = Len(from)
            /\ \A k \in 1..Len(from) :
                  LET a == Taken[from[k]].titleline.a
                  IN  /\ ex.articles[k].title = StripSpace(a.text)
                      /\ \/ ex.articles[k].source_url = a.href
                         \/ ex.articles[k].source_url = HackerNewsBase \o a.href
                      /\ ex.articles[k].source_name = "Hacker News"

\* A malformed row before a well-formed one: one record, of the second row.
C13_Witness ==
    /\ ex.done
    /\ ex.source = "hackernews"
    /\ Len(Taken) = 2
    /\ ~WellFormed(Taken[1])
    /\ WellFormed(Taken[2])
    /\ Len(ex.articles) = 1
    /\ ex.articles[1].source_url = HackerNewsBase \o Taken[2].titleline.a.href

SourceName(source) ==
    IF source = "hackernews" THEN "Hacker News" ELSE "Reddit Programming"

\* C14: an extractor whose fetch fails returns no record and does not raise,
\* so no run ends in an exception of an extractor; with source all, the other
\* extractor has run as well, the records of the run are its records, and
\* the loop passes them to _process_article.
C14_FetchFailureIsolated ==
    /\ run.raised_in # "NewsScraper"
    /\ run.fetch_failed \subseteq run.scraped
    /\ (run.fetch_failed # {} /\ pc = "loop") =>
          /\ run.scraped = {"hackernews", "reddit"}
          /\ N > 0
          /\ \A i \in 1..N : \E source \in run.scraped \ run.fetch_failed :
                all_articles[i].source_name = SourceName(source)
          /\ Reconciles(options.dry_run) => run.invoked = idx - 1
    /\ (run.fetch_failed # {} /\ run.fetch_failed = run.scraped) => pc = "done"

\* The fetch of the aggregator failed, the record of the forum was created.
C14_Witness ==
    /\ LoopDone
    /\ run.fetch_failed = {"hackernews"}
    /\ run.scraped = {"hackernews", "reddit"}
    /\ N = 1
    /\ all_articles[1].source_name = "Reddit Programming"
    /\ created_count = 1
    /\ Fingerprint(all_articles[1]) \in Hashes(store)

\* C15 as claimed: a run whose creation is rejected for the content_hash of a
\* row the other run created meanwhile has 'skipped' as the outcome of that
\* record.  The rejection is an exception of _process_article: the loop of
\* handle catches it and reports the record as failed.
C15_AsClaimed ==
    \A p \in Workers :
        rc.w[p].exc = "IntegrityError" => rc.w[p].last = "skipped"

\* The step is a call of _process_article that returned 'updated'.
UpdatedStep == run'.invoked = run.invoked + 1 /\ run'.last = "updated"

\* C16: every step leaves every row in the table, with its content_hash,
\* source_url, slug and scraped_at; the only rows a step changes at all is the
\* row a forced update found for the fingerprint of its record, which gets the
\* title, summary, publication_date and source_name of the record and the
\* time of the update, and the update adds no row.
C16_UpdateFrame ==
    [][/\ \A r \in store : \E r2 \in store' :
             /\ r2.content_hash = r.content_hash
             /\ r2.source_url = r.source_url
             /\ r2.slug = r.slug
             /\ r2.scraped_at = r.scraped_at
             /\ r2 # r =>
                   /\ UpdatedStep
                   /\ pc = "loop"
                   /\ options.force_update
                   /\ r.content_hash = Fingerprint(all_articles[idx])
                   /\ r2.title = all_articles[idx].title
                   /\ r2.summary = all_articles[idx].summary
                   /\ r2.publication_date = all_articles[idx].publication_date
                   /\ r2.source_name = all_articles[idx].source_name
                   /\ r2.updated_at = today
       /\ UpdatedStep => Cardinality(store') = Cardinality(store)
       /\ Cardinality(store') >= Cardinality(store)]_vars

\* A forced update, on a later day, of one of two rows: the row has the
\* fields of the record, the other row is as it was created.
C16_Witness ==
    /\ pc = "loop"
    /\ options.force_update
    /\ run.last = "updated"
    /\ Cardinality(store) = 2
    /\ \E r \in store :
          /\ r.content_hash = Fingerprint(all_articles[idx - 1])
          /\ r.summary = all_articles[idx - 1].summary
          /\ r.source_url # all_articles[idx - 1].source_url
          /\ r.scraped_at < r.updated_at
          /\ \E o \in store : o # r /\ o.scraped_at = o.updated_at

\* C17 as claimed: in a test run with force_update, a canned record whose
\* fingerprint is stored has the outcome 'updated'.  _create_test_articles
\* calls _process_article with False for force_update: the outcome is
\* 'skipped'.
C17_AsClaimed ==
    [][(/\ pc = "test_loop"
        /\ options.force_update
        /\ idx <= N
        /\ Fingerprint(all_articles[idx]) \in Hashes(store)
        /\ run'.invoked = run.invoked + 1)
          => run'.last = "updated"]_vars

\* C18 as claimed: the record of a post whose url is empty or missing has as
\* source_url the absolute permalink of the post, and not the empty string.
\* Line 104 tests the url for the prefix /r/ and for the host name only: an
\* empty url passes both tests and is the source_url of the record.
C18_AsClaimed ==
    (ex.done /\ ex.source = "reddit") =>
        LET from == RedditEmitted(Len(Taken))
        IN  \A k \in 1..Min(Len(from), Len(ex.articles)) :
               Get(Taken[from[k]].data, "url") = <<>> =>
                   /\ ex.articles[k].source_url # <<>>
                   /\ ex.articles[k].source_url
                         = RedditBase \o Get(Taken[from[k]].data, "permalink")

\* C19 as claimed: a call of _process_article that raises leaves the rows as
\* they were before the call.  A failure of save_revision().publish() comes
\* after add_child has saved the row, and nothing takes the row back.
C19_AsClaimed ==
    [][(/\ pc \in {"loop", "test_loop"}
        /\ run'.invoked = run.invoked + 1
        /\ run'.last = "raise")
          => store' = store]_vars

\* C20 as claimed: the content_hash of every row is the fingerprint of its
\* title, summary and source_url.  A forced update writes the title and the
\* summary of a record whose concatenation of title, summary and url is that
\* of the row, and which can differ from the row in all three; the url and
\* the content_hash of the row stay.
C20_AsClaimed ==
    \A r \in store :
        r.content_hash = content_hash_of(r.title, r.summary, r.source_url)

\* C21 as claimed: a call of _process_article that finds no row for the
\* record and no list page ends the run in an exception, with no row created
\* and no later record processed.  The CommandError of line 363 is raised
\* inside the try of the loop, whose except Exception catches it: the record
\* is reported as failed and the loop goes on.
C21_AsClaimed ==
    [][(/\ pc \in {"loop", "test_loop"}
        /\ Reconciles(options.dry_run)
        /\ idx <= N
        /\ ~news_list_page
        /\ Fingerprint(all_articles[idx]) \notin Hashes(store))
          => (pc' = "raised" /\ store' = store)]_vars

\* The characters of [a-z0-9-] the model's alphabet has.
IsUrlSafe(c) == c \in {"a", "b", "1", "-"}

\* C22: the base slug of every title, before any suffix is added, is made of
\* lower-case letters, digits and hyphens only, and has at most 50 characters.
C22_BaseSlugSafe ==
    sl.count > 0 =>
        LET base == base_slug(sl.title)
        IN  /\ \A i \in 1..Len(base) : IsUrlSafe(base[i])
            /\ Len(base) <= SlugMaxLen
            /\ \/ sl.slug = base
               \/ \E k \in 1..sl.count :
                     sl.slug = base \o <<"-">> \o Str(k)

\* A title of 51 characters with a space in it: its base slug is its first 49
\* characters and the hyphen the space became.
C22_Witness ==
    /\ sl.count > 0
    /\ Len(sl.title) = SlugMaxLen + 1
    /\ \E i \in 1..Len(sl.title) : IsSpace(sl.title[i])
    /\ Len(base_slug(sl.title)) = SlugMaxLen
    /\ base_slug(sl.title)[SlugMaxLen] = "-"
    /\ sl.slug = base_slug(sl.title)

====
